---- MODULE Spec2Model ----
(***************************************************************************)
(* Model of mdhender/fluffy-giggle, src/main.go: the grammar graph (Node,  *)
(* Header) and the FIRST-set walk (Header.First, Node.First).              *)
(*                                                                         *)
(* Node and Header identities are naturals; 0 is the nil pointer.  A graph *)
(* is a record holding the fields of every Node and Header.                *)
(***************************************************************************)
EXTENDS Naturals, Sequences, FiniteSets

VARIABLES
    graph,      \* the Node/Header fields of the grammar under query
    vref,       \* per call: which visited map the call was handed
    visited,    \* per visited map: the Nodes marked in it
    stack,      \* per call: the Go call stack of First frames, bottom first
    status,     \* per call: "idle", "running", "done" or "panic"
    target,     \* per call: the receiver of the top-level First call
    result,     \* per call: the set the top-level First call returned
    prev,       \* per call: target/result/visited of the call made before
    ncalls,     \* per call: number of top-level calls started so far
    marks,      \* per call: how often each Node got visited[node] = true
    steps,      \* per call: number of steps taken by the current call
    app         \* the last atomic application of First (pure specification)

vars == <<graph, vref, visited, stack, status, target, result, prev, ncalls,
          marks, steps, app>>

----------------------------------------------------------------------------
(* Bounds of the model *)

\* Nodes of the generated graphs checked step by step
NumNodes == 2
\* Headers of the generated graphs checked step by step
NumHeaders == 2
\* Nodes of the generated graphs the atomic applications are checked on
PureNodes == 3
\* Headers of the generated graphs the atomic applications are checked on
PureHeaders == 1
\* Headers of the generated graphs two interleaved calls are checked on
ConcHeaders == 1
\* Successive top-level calls made by one caller
MaxCalls == 2

----------------------------------------------------------------------------
(* The data model *)

\* the nil *Node / *Header
Nil == 0

\* the two call sites of First
Calls == {1, 2}

\* terminal symbols of the generated graphs ("" is Tsym's zero value)
Syms == {"x", "ε"}

HeaderNames == <<"A", "B", "C", "D", "E">>

\* The kinds of Node the constructors build: a terminal with a symbol, or
\* a non-terminal with a (possibly nil) Header reference.
NodeKinds(headers) ==
    {[Terminal |-> TRUE, Tsym |-> s, Nsym |-> Nil] : s \in Syms}
    \cup {[Terminal |-> FALSE, Tsym |-> "", Nsym |-> h] : h \in headers \cup {Nil}}

\* Shapes of the Suc links: none, every Node looping on itself (line 22),
\* a ring through all Nodes, every Node leading to the first one.
SucShapes(n) ==
    { [i \in 1..n |-> Nil],
      [i \in 1..n |-> i],
      [i \in 1..n |-> (i % n) + 1],
      [i \in 1..n |-> 1] }

\* Every graph of n Nodes and h Headers with arbitrary Alt and Entry links.
Graphs(n, h) ==
    { [ nodes    |-> 1..n,
        headers  |-> 1..h,
        Terminal |-> [i \in 1..n |-> k[i].Terminal],
        Tsym     |-> [i \in 1..n |-> k[i].Tsym],
        Nsym     |-> [i \in 1..n |-> k[i].Nsym],
        Suc      |-> s,
        Alt      |-> a,
        Sym      |-> [j \in 1..h |-> HeaderNames[j]],
        Entry    |-> e ] :
      k \in [1..n -> NodeKinds(1..h)],
      s \in SucShapes(n),
      a \in [1..n -> 0..n],
      e \in [1..h -> 0..n] }

\* func example5: A ::= 'x' | '(' B ')' ; B ::= A C ; C ::= { '+' A }
example5 ==
    LET empty == 1  lParen == 2  plus == 3  rParen == 4  x == 5
        refA1 == 6  \* lParen.Suc
        refA2 == 7  \* B.Entry
        refC  == 8  \* B.Entry.Suc
        refA3 == 9  \* plus.Suc
        A == 1  B == 2  C == 3
        term  == {empty, lParen, plus, rParen, x}
    IN [ nodes    |-> 1..9,
         headers  |-> 1..3,
         Terminal |-> [i \in 1..9 |-> i \in term],
         Tsym     |-> [i \in 1..9 |->
                         CASE i = empty  -> "ε"
                           [] i = lParen -> "("
                           [] i = plus   -> "+"
                           [] i = rParen -> ")"
                           [] i = x      -> "x"
                           [] OTHER      -> ""],
         Nsym     |-> [i \in 1..9 |->
                         CASE i \in {refA1, refA2, refA3} -> A
                           [] i = refC                    -> C
                           [] OTHER                       -> Nil],
         Suc      |-> [i \in 1..9 |->
                         CASE i = lParen -> refA1
                           [] i = refA1  -> rParen
                           [] i = refA2  -> refC
                           [] i = plus   -> refA3
                           [] i = refA3  -> plus
                           [] OTHER      -> Nil],
         Alt      |-> [i \in 1..9 |->
                         CASE i = x    -> lParen
                           [] i = plus -> empty
                           [] OTHER    -> Nil],
         Sym      |-> [j \in 1..3 |-> HeaderNames[j]],
         Entry    |-> [j \in 1..3 |->
                         CASE j = A -> x
                           [] j = B -> refA2
                           [] j = C -> plus] ]

\* func example5reduced: A ::= 'x' | '(' A { '+' A } ')'
example5reduced ==
    LET x == 1  lParen == 2  empty == 3  plus == 4  rParen == 5
        refA1 == 6  \* lParen.Suc
        refA2 == 7  \* plus.Suc
        A == 1
        term  == {x, lParen, empty, plus, rParen}
    IN [ nodes    |-> 1..7,
         headers  |-> 1..1,
         Terminal |-> [i \in 1..7 |-> i \in term],
         Tsym     |-> [i \in 1..7 |->
                         CASE i = empty  -> "ε"
                           [] i = lParen -> "("
                           [] i = plus   -> "+"
                           [] i = rParen -> ")"
                           [] i = x      -> "x"
                           [] OTHER      -> ""],
         Nsym     |-> [i \in 1..7 |-> IF i \in {refA1, refA2} THEN A ELSE Nil],
         Suc      |-> [i \in 1..7 |->
                         CASE i = lParen -> refA1
                           [] i = refA1  -> plus
                           [] i = plus   -> refA2
                           [] i = refA2  -> plus
                           [] i = empty  -> rParen
                           [] OTHER      -> Nil],
         Alt      |-> [i \in 1..7 |->
                         CASE i = lParen -> x
                           [] i = plus   -> empty
                           [] OTHER      -> Nil],
         Sym      |-> [j \in 1..1 |-> HeaderNames[j]],
         Entry    |-> [j \in 1..1 |-> lParen] ]

Fixtures == {example5, example5reduced}

----------------------------------------------------------------------------
(* Node.First and Header.First, as functions *)

\* variant: the visited check of line 140 is missing
SkipNilOnly(node, vis) == node = Nil

\* lines 135-142: a nil Node or a Node already visited returns at once
Skip(node, vis) == node = Nil \/ node \in vis

\* line 148: the non-terminal branch is taken
FollowsNsym(G, node) ==
    /\ ~G.Terminal[node]
    /\ G.Nsym[node] # Nil
    /\ G.Entry[G.Nsym[node]] # Nil

\* variant: the Alt branch hangs off the else-if chain of lines 145-153
AltOnlyIfNonTerminal(G, node) == G.Alt[node] # Nil /\ ~G.Terminal[node]

\* line 156: the Alt branch is taken
FollowsAlt(G, node) == G.Alt[node] # Nil

\* variant: the branch recurses on Suc instead of Alt
SucLink(G, node) == G.Suc[node]

\* line 157: the Node the Alt branch recurses on
AltLink(G, node) == G.Alt[node]

\* variant: the callee's set replaces firstSymbols
MergeOverwrite(firstSymbols, ret) == ret

\* variant: the empty symbol is dropped when sets are combined
MergeStripEmpty(firstSymbols, ret) == (firstSymbols \cup ret) \ {"ε"}

\* lines 126, 151, 158: copy the callee's symbols into firstSymbols
Merge(firstSymbols, ret) == firstSymbols \cup ret

\* what a First call hands back: the returned set, the visited map as the
\* call leaves it, and whether the call panicked
Ret(syms, vis) == [syms |-> syms, visited |-> vis, panic |-> FALSE]

RECURSIVE NodeFirst(_, _, _)
RECURSIVE HeaderFirst(_, _, _)

\* variant: the Header adds its own symbol to the set
HeaderFirstWithSym(G, h, vis) ==
    IF h = Nil
    THEN [syms |-> {}, visited |-> vis, panic |-> TRUE]
    ELSE LET r == NodeFirst(G, G.Entry[h], vis)
         IN  Ret(Merge({G.Sym[h]}, r.syms), r.visited)

HeaderFirst(G, h, vis) ==
    IF h = Nil
    THEN [syms |-> {}, visited |-> vis, panic |-> TRUE]  \* h.Entry on nil h
    ELSE LET r == NodeFirst(G, G.Entry[h], vis)
         IN  Ret(Merge({}, r.syms), r.visited)

\* variant: a non-terminal reference also walks on through its Suc link
NodeFirstThroughSuc(G, node, vis) ==
    IF Skip(node, vis)
    THEN Ret({}, vis)
    ELSE LET v1  == vis \cup {node}
             own == IF G.Terminal[node]
                    THEN Ret({G.Tsym[node]}, v1)
                    ELSE LET r == IF FollowsNsym(G, node)
                                  THEN HeaderFirst(G, G.Nsym[node], v1)
                                  ELSE Ret({}, v1)
                             t == NodeFirst(G, G.Suc[node], r.visited)
                         IN  Ret(Merge(r.syms, t.syms), t.visited)
             alt == IF FollowsAlt(G, node)
                    THEN NodeFirst(G, AltLink(G, node), own.visited)
                    ELSE Ret({}, own.visited)
         IN  Ret(Merge(own.syms, alt.syms), alt.visited)

NodeFirst(G, node, vis) ==
    IF Skip(node, vis)
    THEN Ret({}, vis)
    ELSE LET v1  == vis \cup {node}
             own == IF G.Terminal[node]
                    THEN Ret({G.Tsym[node]}, v1)
                    ELSE IF FollowsNsym(G, node)
                         THEN LET r == HeaderFirst(G, G.Nsym[node], v1)
                              IN  Ret(Merge({}, r.syms), r.visited)
                         ELSE Ret({}, v1)
             alt == IF FollowsAlt(G, node)
                    THEN NodeFirst(G, AltLink(G, node), own.visited)
                    ELSE Ret({}, own.visited)
         IN  Ret(Merge(own.syms, alt.syms), alt.visited)

\* a top-level call as main makes it: First(map[*Node]bool{})
First(G, t) ==
    IF t.fn = "Header" THEN HeaderFirst(G, t.arg, {}) ELSE NodeFirst(G, t.arg, {})

Targets(G) ==
    {[fn |-> "Node", arg |-> n] : n \in G.nodes \cup {Nil}}
    \cup {[fn |-> "Header", arg |-> h] : h \in G.headers \cup {Nil}}

NoTarget == [fn |-> "none", arg |-> Nil]
NoPrev == [has |-> FALSE, target |-> NoTarget, result |-> {}, visited |-> {}]
NoApp == [fn |-> "none", arg |-> Nil, vis |-> {}, ret |-> Ret({}, {})]

----------------------------------------------------------------------------
(* The calls, step by step *)

\* variant: one package-level map serves every call site
SharedMap(c) == 1

\* line 27, line 32: each call site allocates its own map ...
NewMap(c) == c

\* variant: the map of the call before is handed in again
KeepVisited(old) == old

\* ... and the map is empty: map[*Node]bool{}
FreshVisited(old) == {}

\* a frame of Header.First or Node.First about to run its first statement
Frame(fn, arg) == [fn |-> fn, arg |-> arg, pc |-> "enter", syms |-> {}]

Top(s) == s[Len(s)]
ReplaceTop(s, f) == [s EXCEPT ![Len(s)] = f]
Pop(s) == SubSeq(s, 1, Len(s) - 1)

\* no call has started; every map is empty
Idle ==
    /\ vref = [c \in Calls |-> c]
    /\ visited = [c \in Calls |-> {}]
    /\ stack = [c \in Calls |-> <<>>]
    /\ status = [c \in Calls |-> "idle"]
    /\ target = [c \in Calls |-> NoTarget]
    /\ result = [c \in Calls |-> {}]
    /\ prev = [c \in Calls |-> NoPrev]
    /\ ncalls = [c \in Calls |-> 0]
    /\ marks = [c \in Calls |-> [n \in graph.nodes |-> 0]]
    /\ steps = [c \in Calls |-> 0]
    /\ app = NoApp

\* a panic (line 125 on a nil Header) ends the whole program
Crashed == \E c \in Calls : status[c] = "panic"

Init ==
    /\ graph \in Graphs(NumNodes, NumHeaders) \cup Fixtures
    /\ Idle

\* main, lines 27 and 32: start.First(map[*Node]bool{}); also any other
\* top-level call on a Node or Header of the graph
Start(c, t, limit) ==
    /\ ~Crashed
    /\ status[c] \in {"idle", "done"}
    /\ ncalls[c] < limit
    /\ t \in Targets(graph)
    /\ vref' = [vref EXCEPT ![c] = NewMap(c)]
    /\ visited' = [visited EXCEPT ![NewMap(c)] = FreshVisited(@)]
    /\ stack' = [stack EXCEPT ![c] = <<Frame(t.fn, t.arg)>>]
    /\ status' = [status EXCEPT ![c] = "running"]
    /\ target' = [target EXCEPT ![c] = t]
    /\ result' = [result EXCEPT ![c] = {}]
    /\ prev' = [prev EXCEPT ![c] =
                  IF status[c] = "done"
                  THEN [has |-> TRUE, target |-> target[c], result |-> result[c],
                        visited |-> visited[vref[c]]]
                  ELSE NoPrev]
    /\ ncalls' = [ncalls EXCEPT ![c] = @ + 1]
    /\ marks' = [marks EXCEPT ![c] = [n \in graph.nodes |-> 0]]
    /\ steps' = [steps EXCEPT ![c] = 0]
    /\ UNCHANGED <<graph, app>>

\* the top frame returns syms: the caller copies them into its firstSymbols
\* (lines 125-127, 150-152, 157-159); the bottom frame returns to main
Returns(c, syms) ==
    LET s == Pop(stack[c]) IN
    IF s = <<>>
    THEN /\ stack' = [stack EXCEPT ![c] = <<>>]
         /\ status' = [status EXCEPT ![c] = "done"]
         /\ result' = [result EXCEPT ![c] = syms]
    ELSE /\ stack' = [stack EXCEPT ![c] =
                        ReplaceTop(s, [Top(s) EXCEPT !.syms = Merge(@, syms)])]
         /\ UNCHANGED <<status, result>>

\* Node.First, lines 133-153: the guards, the mark, the Terminal/Nsym branch
NodeEnter(c) ==
    /\ ~Crashed
    /\ status[c] = "running"
    /\ Top(stack[c]).fn = "Node"
    /\ Top(stack[c]).pc = "enter"
    /\ LET f == Top(stack[c])
           m == vref[c]
       IN IF Skip(f.arg, visited[m])
          THEN /\ Returns(c, {})
               /\ UNCHANGED <<visited, marks>>
          ELSE /\ visited' = [visited EXCEPT ![m] = @ \cup {f.arg}]
               /\ marks' = [marks EXCEPT ![c][f.arg] = @ + 1]
               /\ UNCHANGED <<status, result>>
               /\ IF graph.Terminal[f.arg]
                  THEN stack' = [stack EXCEPT ![c] = ReplaceTop(@,
                           [f EXCEPT !.syms = Merge(@, {graph.Tsym[f.arg]}),
                                     !.pc = "alt"])]
                  ELSE IF FollowsNsym(graph, f.arg)
                  THEN stack' = [stack EXCEPT ![c] = Append(
                           ReplaceTop(@, [f EXCEPT !.pc = "alt"]),
                           Frame("Header", graph.Nsym[f.arg]))]
                  ELSE stack' = [stack EXCEPT ![c] =
                           ReplaceTop(@, [f EXCEPT !.pc = "alt"])]
    /\ steps' = [steps EXCEPT ![c] = @ + 1]
    /\ UNCHANGED <<graph, vref, target, prev, ncalls, app>>

\* Header.First, lines 124-125: h.Entry is read (a nil h panics) and
\* Entry.First is called
HeaderEnter(c) ==
    /\ ~Crashed
    /\ status[c] = "running"
    /\ Top(stack[c]).fn = "Header"
    /\ Top(stack[c]).pc = "enter"
    /\ LET f == Top(stack[c])
       IN IF f.arg = Nil
          THEN /\ status' = [status EXCEPT ![c] = "panic"]
               /\ UNCHANGED stack
          ELSE /\ stack' = [stack EXCEPT ![c] = Append(
                      ReplaceTop(@, [f EXCEPT !.pc = "ret"]),
                      Frame("Node", graph.Entry[f.arg]))]
               /\ UNCHANGED status
    /\ steps' = [steps EXCEPT ![c] = @ + 1]
    /\ UNCHANGED <<graph, vref, visited, target, result, prev, ncalls, marks, app>>

\* Node.First, lines 156-157: the Alt branch
AltStep(c) ==
    /\ ~Crashed
    /\ status[c] = "running"
    /\ Top(stack[c]).fn = "Node"
    /\ Top(stack[c]).pc = "alt"
    /\ LET f == Top(stack[c])
       IN IF FollowsAlt(graph, f.arg)
          THEN stack' = [stack EXCEPT ![c] = Append(
                   ReplaceTop(@, [f EXCEPT !.pc = "ret"]),
                   Frame("Node", AltLink(graph, f.arg)))]
          ELSE stack' = [stack EXCEPT ![c] = ReplaceTop(@, [f EXCEPT !.pc = "ret"])]
    /\ steps' = [steps EXCEPT ![c] = @ + 1]
    /\ UNCHANGED <<graph, vref, visited, status, target, result, prev, ncalls,
                   marks, app>>

\* lines 128 and 162: return firstSymbols
Return(c) ==
    /\ ~Crashed
    /\ status[c] = "running"
    /\ Top(stack[c]).pc = "ret"
    /\ Returns(c, Top(stack[c]).syms)
    /\ steps' = [steps EXCEPT ![c] = @ + 1]
    /\ UNCHANGED <<graph, vref, visited, target, prev, ncalls, marks, app>>

Step(c) == NodeEnter(c) \/ HeaderEnter(c) \/ AltStep(c) \/ Return(c)

\* one caller making its calls one after the other, as main does
Next ==
    \/ \E t \in Targets(graph) : Start(1, t, MaxCalls)
    \/ NodeEnter(1)
    \/ HeaderEnter(1)
    \/ AltStep(1)
    \/ Return(1)

Spec == Init /\ [][Next]_vars

\* two callers, one call each, interleaved at every step
ConcNext ==
    \/ \E c \in Calls, t \in Targets(graph) : Start(c, t, 1)
    \/ \E c \in Calls : NodeEnter(c)
    \/ \E c \in Calls : HeaderEnter(c)
    \/ \E c \in Calls : AltStep(c)
    \/ \E c \in Calls : Return(c)

ConcInit ==
    /\ graph \in Graphs(NumNodes, ConcHeaders) \cup Fixtures
    /\ Idle

ConcSpec == ConcInit /\ [][ConcNext]_vars

----------------------------------------------------------------------------
(* First applied atomically to drawn inputs *)

PureInit ==
    /\ graph \in Graphs(PureNodes, PureHeaders) \cup Graphs(NumNodes, NumHeaders)
                \cup Fixtures
    /\ Idle

\* node.First(vis): on a Node with an empty map, on nil with any map drawn
ApplyNodeFirst ==
    /\ \E n \in graph.nodes \cup {Nil}, vis \in {{}, graph.nodes} :
          /\ n # Nil => vis = {}
          /\ app' = [fn |-> "Node", arg |-> n, vis |-> vis,
                     ret |-> NodeFirst(graph, n, vis)]
    /\ UNCHANGED <<graph, vref, visited, stack, status, target, result, prev,
                   ncalls, marks, steps>>

\* h.First(map[*Node]bool{})
ApplyHeaderFirst ==
    /\ \E h \in graph.headers \cup {Nil} :
          app' = [fn |-> "Header", arg |-> h, vis |-> {},
                  ret |-> HeaderFirst(graph, h, {})]
    /\ UNCHANGED <<graph, vref, visited, stack, status, target, result, prev,
                   ncalls, marks, steps>>

PureNext == ApplyNodeFirst \/ ApplyHeaderFirst

PureSpec == PureInit /\ [][PureNext]_vars

----------------------------------------------------------------------------
(* Properties *)

\* the visited map call c was handed
Vis(c) == visited[vref[c]]

\* The Nodes reachable from the Nodes of S over Alt links and over the
\* link from a non-terminal Node to its Header's Entry; never over Suc.
RECURSIVE ReachFrom(_, _)
ReachFrom(G, S) ==
    LET viaAlt == {G.Alt[n] : n \in S}
        refs   == {n \in S : ~G.Terminal[n] /\ G.Nsym[n] # Nil}
        viaRef == {G.Entry[G.Nsym[n]] : n \in refs}
        T      == S \cup ((viaAlt \cup viaRef) \ {Nil})
    IN  IF T = S THEN S ELSE ReachFrom(G, T)

\* the Nodes a top-level call on t can reach
Reach(G, t) ==
    LET n == IF t.fn = "Header"
             THEN (IF t.arg = Nil THEN Nil ELSE G.Entry[t.arg])
             ELSE t.arg
    IN  IF n = Nil THEN {} ELSE ReachFrom(G, {n})

TerminalSyms(G, S) == {G.Tsym[n] : n \in {m \in S : G.Terminal[m]}}

\* Node n lies on a cycle of Alt / Header-entry links
OnCycle(G, n) ==
    LET viaAlt == IF G.Alt[n] # Nil THEN {G.Alt[n]} ELSE {}
        viaRef == IF FollowsNsym(G, n) THEN {G.Entry[G.Nsym[n]]} ELSE {}
    IN  viaAlt \cup viaRef # {} /\ n \in ReachFrom(G, viaAlt \cup viaRef)

\* C1: a top-level First call terminates with a finite set whatever cycles
\* the graph has: no Node is marked visited twice, the number of steps and
\* the depth of the recursion are bounded by the size of the graph, a
\* running call can always take its next step, and a finished call has
\* unwound its stack and returned a finite set.
C1_Terminates ==
    \A c \in Calls :
        /\ \A n \in graph.nodes : marks[c][n] <= 1
        /\ steps[c] <= 6 * Cardinality(graph.nodes) + 3
        /\ Len(stack[c]) <= 2 * Cardinality(graph.nodes) + 2
        /\ status[c] = "running" => ENABLED Step(c)
        /\ status[c] = "done" => stack[c] = <<>> /\ IsFiniteSet(result[c])

\* a call has finished on a graph where a visited non-terminal Node leads
\* back to itself and a visited Node's Suc link is a self-link
C1_Witness ==
    /\ status[1] = "done"
    /\ \E n \in Vis(1) : ~graph.Terminal[n] /\ OnCycle(graph, n)
    /\ \E n \in Vis(1) : graph.Suc[n] = n

\* C4: a second call in succession on the same unchanged graph from the
\* same start returns the set the first call returned, and marks the same
\* Nodes again: nothing the first call marked carries over.
C4_Determinism ==
    \A c \in Calls :
        (status[c] = "done" /\ prev[c].has /\ prev[c].target = target[c])
            => /\ result[c] = prev[c].result
               /\ Vis(c) = prev[c].visited

\* the second of two equal calls has finished, having walked several Nodes
C4_Witness ==
    /\ status[1] = "done"
    /\ prev[1].has
    /\ prev[1].target = target[1]
    /\ result[1] # {}
    /\ Cardinality(Vis(1)) >= 2

\* C5: First on a nil starting Header yields the empty set and no fault.
C5_NilHeaderEmpty ==
    \A c \in Calls :
        target[c] = [fn |-> "Header", arg |-> Nil]
            => /\ status[c] # "panic"
               /\ status[c] = "done" => result[c] = {}

\* C8: on both fixtures First on Header A returns exactly {"x", "("}.
C8_WorkedExample ==
    \A c \in Calls :
        (/\ status[c] = "done"
         /\ graph \in Fixtures
         /\ target[c].fn = "Header"
         /\ target[c].arg # Nil
         /\ graph.Sym[target[c].arg] = "A")
            => /\ result[c] = {"x", "("}
               /\ result[c] \cap {")", "+", "ε"} = {}

\* the call on Header A of example5 has finished
C8_Witness ==
    /\ graph = example5
    /\ status[1] = "done"
    /\ target[1] = [fn |-> "Header", arg |-> 1]
    /\ Cardinality(Vis(1)) = 2

\* C9: the empty symbol is an ordinary terminal: when a call visited a
\* terminal Node with symbol ε, ε is in the set it returns; First on
\* Header C of example5 returns exactly {"+", "ε"}.
C9_EmptySymbolKept ==
    \A c \in Calls :
        status[c] = "done"
            => /\ (\E n \in Vis(c) : graph.Terminal[n] /\ graph.Tsym[n] = "ε")
                      => "ε" \in result[c]
               /\ (graph = example5 /\ target[c] = [fn |-> "Header", arg |-> 3])
                      => result[c] = {"+", "ε"}

\* the call on Header C of example5 has finished, having visited the ε Node
C9_Witness ==
    /\ graph = example5
    /\ status[1] = "done"
    /\ target[1] = [fn |-> "Header", arg |-> 3]
    /\ 1 \in Vis(1)

\* C10: while a call runs its visited map only grows; when a call on a
\* Node or Header returns, the map holds exactly the Nodes reachable over
\* Alt and Header-entry links, and the set returned holds exactly the
\* symbols of the terminal Nodes among them.
C10_ReachExact ==
    [][\A c \in Calls :
          /\ status[c] = "running" => Vis(c) \subseteq visited'[vref'[c]]
          /\ (status'[c] = "done" /\ target'[c].arg # Nil)
                => /\ visited'[vref'[c]] = Reach(graph', target'[c])
                   /\ result'[c] = TerminalSyms(graph', Reach(graph', target'[c]))
      ]_vars

\* a call on a Node has returned; a Node only a Suc link leads to carries
\* a symbol that was not returned
C10_Witness ==
    /\ status[1] = "done"
    /\ target[1].fn = "Node"
    /\ Cardinality(Vis(1)) >= 2
    /\ \E n \in Vis(1) :
          /\ graph.Suc[n] # Nil
          /\ graph.Suc[n] \notin Vis(1)
          /\ graph.Terminal[graph.Suc[n]]
          /\ graph.Tsym[graph.Suc[n]] \notin result[1]

\* C7: with two calls interleaved at every step, each on its own visited
\* map, no step changes a field of a Node or Header, a step of one call
\* leaves the other call's map, stack and result alone, and a call that
\* returns hands back the set First returns when run alone.
C7_Isolation ==
    [][/\ graph' = graph
       /\ \A c \in Calls :
             /\ Step(c) =>
                   \A d \in Calls \ {c} :
                       /\ visited'[vref'[d]] = Vis(d)
                       /\ stack'[d] = stack[d]
                       /\ result'[d] = result[d]
             /\ status'[c] = "done" =>
                   result'[c] = First(graph, target'[c]).syms
      ]_vars

\* both calls are in the middle of their walks, several frames deep, and
\* have marked a Node in common
C7_Witness ==
    /\ status[1] = "running"
    /\ status[2] = "running"
    /\ Len(stack[1]) >= 2
    /\ Len(stack[2]) >= 2
    /\ Vis(1) \cap Vis(2) # {}
    /\ Vis(1) # Vis(2)

----------------------------------------------------------------------------
(* Properties of First as a function *)

\* the graph with the Alt link of Node n removed
WithoutAlt(G, n) == [G EXCEPT !.Alt[n] = Nil]

\* the graph with the Suc link of Node n removed
WithoutSuc(G, n) == [G EXCEPT !.Suc[n] = Nil]

\* The Nodes from which the empty string can be derived, reading a Node as
\* the start of a sequence (over Suc) with alternatives (over Alt): the
\* least set closed under the two rules below.  A reference to a Header
\* that is absent or has no Entry is counted as possibly empty.
RECURSIVE NullableFrom(_, _)
NullableFrom(G, S) ==
    LET item(n) == IF G.Terminal[n]
                   THEN G.Tsym[n] = "ε"
                   ELSE \/ G.Nsym[n] = Nil
                        \/ G.Entry[G.Nsym[n]] = Nil
                        \/ G.Entry[G.Nsym[n]] \in S
        T == {n \in G.nodes :
                \/ item(n) /\ (G.Suc[n] = Nil \/ G.Suc[n] \in S)
                \/ G.Alt[n] # Nil /\ G.Alt[n] \in S}
    IN  IF T \subseteq S THEN S ELSE NullableFrom(G, S \cup T)

CanDeriveEmpty(G, h) == G.Entry[h] = Nil \/ G.Entry[h] \in NullableFrom(G, {})

\* the last application was First on a non-terminal reference Node whose
\* Header cannot derive empty, started with an empty map
RefToNonEmpty ==
    /\ app.fn = "Node"
    /\ app.arg # Nil
    /\ ~graph.Terminal[app.arg]
    /\ graph.Nsym[app.arg] # Nil
    /\ ~CanDeriveEmpty(graph, graph.Nsym[app.arg])

\* C2: for a Node n with Alt link m, first(n) is first(n) computed with
\* the Alt link of n removed, united with first(m), each started with its
\* own empty map.
C2_ChoiceUnion ==
    (app.fn = "Node" /\ app.arg # Nil /\ graph.Alt[app.arg] # Nil)
        => app.ret.syms =
              NodeFirst(WithoutAlt(graph, app.arg), app.arg, {}).syms
              \cup NodeFirst(graph, graph.Alt[app.arg], {}).syms

\* First was applied to a Node n whose Alt branch leads back to n and
\* shares a Node with n's non-terminal expansion
C2_Witness ==
    /\ app.fn = "Node"
    /\ app.arg # Nil
    /\ graph.Alt[app.arg] # Nil
    /\ graph.Alt[app.arg] # app.arg
    /\ FollowsNsym(graph, app.arg)
    /\ app.arg \in ReachFrom(graph, {graph.Alt[app.arg]})
    /\ ReachFrom(graph, {graph.Alt[app.arg]})
          \cap ReachFrom(WithoutAlt(graph, app.arg), {app.arg}) # {app.arg}
    /\ Cardinality(app.ret.syms) = 2

\* C3 as stated: for a non-terminal reference Node n whose Header cannot
\* derive empty, first(n) equals first(n.Nsym).
C3_EqualsRefFirst ==
    RefToNonEmpty
        => app.ret.syms = HeaderFirst(graph, graph.Nsym[app.arg], {}).syms

\* C3, amended: for a non-terminal reference Node n whose Header cannot
\* derive empty, first(n) equals first(n.Nsym) united with first(n.Alt),
\* and nothing comes in over n.Suc: removing the Suc link of n leaves
\* first(n) as it is.
C3_SequenceNonLeak ==
    RefToNonEmpty
        => /\ app.ret.syms =
                 HeaderFirst(graph, graph.Nsym[app.arg], {}).syms
                 \cup NodeFirst(graph, graph.Alt[app.arg], {}).syms
           /\ app.ret.syms = NodeFirst(WithoutSuc(graph, app.arg), app.arg, {}).syms

\* First was applied to such a Node whose Suc link leads to a terminal
\* Node with a symbol that is not in the result
C3_Witness ==
    /\ RefToNonEmpty
    /\ app.ret.syms # {}
    /\ graph.Suc[app.arg] # Nil
    /\ graph.Terminal[graph.Suc[app.arg]]
    /\ graph.Tsym[graph.Suc[app.arg]] \notin app.ret.syms

\* C6: First on a nil Node returns the empty set and leaves the visited
\* map as it was; First on a Header returns what First on its Entry
\* returns, the empty set when the Entry is nil; a non-terminal Node whose
\* Header is nil or has no Entry returns what its Alt branch returns.
C6_EmptyInputs ==
    /\ (app.fn = "Node" /\ app.arg = Nil)
          => app.ret = [syms |-> {}, visited |-> app.vis, panic |-> FALSE]
    /\ (app.fn = "Header" /\ app.arg # Nil)
          => /\ app.ret = NodeFirst(graph, graph.Entry[app.arg], {})
             /\ graph.Entry[app.arg] = Nil => app.ret.syms = {}
    /\ (/\ app.fn = "Node"
        /\ app.arg # Nil
        /\ ~graph.Terminal[app.arg]
        /\ (graph.Nsym[app.arg] = Nil \/ graph.Entry[graph.Nsym[app.arg]] = Nil))
          => /\ app.ret.syms = NodeFirst(graph, graph.Alt[app.arg], {app.arg}).syms
             /\ app.ret.syms = NodeFirst(graph, graph.Alt[app.arg], {}).syms

\* First was applied to a Header whose Entry yields a non-empty set
C6_Witness ==
    /\ app.fn = "Header"
    /\ app.arg # Nil
    /\ graph.Entry[app.arg] # Nil
    /\ Cardinality(app.ret.syms) = 2

====
